---------------------------- MODULE Spec2Model ----------------------------
(***************************************************************************)
(* A model of the sensor drivers of horace1024/sensors (INA233 power       *)
(* meter, BME280 temperature/pressure/humidity sensor, SHT31 humidity      *)
(* sensor, MCP9808 and DS18B20 temperature sensors, MPL3115A2 pressure     *)
(* and altitude sensor).                                                   *)
(*                                                                         *)
(* Each driver object is one record variable whose fields carry the names  *)
(* of the Python attributes.  Every public method is one action; the bus   *)
(* transactions, sleeps, comparisons and prints a method performs are      *)
(* recorded, in program order, in the object's `log` field (the events of  *)
(* the latest call).  Whatever the device answers on the bus is an input   *)
(* of the action.                                                          *)
(*                                                                         *)
(* Arithmetic.  Python floats are modelled by exact rationals.  A rational *)
(* is a record [w, n, d] standing for w + n/d with 0 <= n < d and          *)
(* gcd(n, d) = 1.  Scaled units are named where they are used.             *)
(***************************************************************************)
EXTENDS Integers, Sequences, FiniteSets, TLC

VARIABLES
    clock,   \* the wall clock read by datetime.utcnow(), in whole seconds
    ina,     \* the INA233 object
    bme,     \* the BME280 object
    sht,     \* the SHT31 object
    mcp,     \* the MCP9808 object
    ds,      \* the DS18B20 object
    mpl      \* the MPL3115A2 object

vars == <<clock, ina, bme, sht, mcp, ds, mpl>>

---------------------------------------------------------------------------
(* Bounds of the model.                                                    *)

\* The wall clock changes (a second passes, or it is set back a second) at
\* most this many times.
MaxClockMoves == 4
\* Longest byte sequence handed to SHT31.crc_check.
MaxCrcLen == 2

---------------------------------------------------------------------------
(* Bit operations.  TLC's % and \div round towards minus infinity, as      *)
(* Python's & and >> do on negative integers.                              *)

\* x & (2^k - 1): the low k bits of x.
Low(x, k) == x % 2^k

\* Bit k of x, as 0 or 1: x & (1 << k) is non-zero exactly when it is 1.
Bit(x, k) == (x \div 2^k) % 2

\* x & 0xF0
HighNibble(x) == Low(x, 8) - Low(x, 4)

RECURSIVE BitXor(_, _)
BitXor(x, y) ==
    IF x = 0 THEN y
    ELSE IF y = 0 THEN x
    ELSE ((x + y) % 2) + 2 * BitXor(x \div 2, y \div 2)

Shl(x, k) == x * 2^k

Shr(x, k) == x \div 2^k

---------------------------------------------------------------------------
(* Exact rationals.                                                        *)

RECURSIVE Gcd(_, _)
Gcd(a, b) == IF b = 0 THEN a ELSE Gcd(b, a % b)

\* p / q for an integer p and an integer q > 0.
QFrac(p, q) ==
    LET r == p % q
        g == Gcd(q, r)
    IN  [w |-> p \div q, n |-> r \div g, d |-> q \div g]

QInt(k) == [w |-> k, n |-> 0, d |-> 1]

\* TLC evaluates the argument of an operator anew at each of its uses; the
\* deeply nested arithmetic below binds every operand once, through a
\* singleton set: CHOOSE r \in { F(x) : x \in {a} } : TRUE is F(a).
QAdd(a, b) ==
    CHOOSE r \in
      { LET g == Gcd(x.d, y.d)
            l == (x.d \div g) * y.d
            s == x.n * (l \div x.d) + y.n * (l \div y.d)
            f == QFrac(s, l)
        IN  [w |-> x.w + y.w + f.w, n |-> f.n, d |-> f.d] :
          x \in {a}, y \in {b} } :
      TRUE

QLeq(a, b) ==
    LET g == Gcd(a.d, b.d)
        l == (a.d \div g) * b.d
    IN  \/ a.w < b.w
        \/ a.w = b.w /\ a.n * (l \div a.d) <= b.n * (l \div b.d)

QNeg(a) ==
    CHOOSE r \in
      { IF x.n = 0 THEN [w |-> -x.w, n |-> 0, d |-> 1]
        ELSE [w |-> -x.w - 1, n |-> x.d - x.n, d |-> x.d] :
          x \in {a} } :
      TRUE

QSub(a, b) == QAdd(a, QNeg(b))

QMul(a, b) ==
    CHOOSE r \in
      { QAdd(QAdd(QInt(x.w * y.w), QFrac(x.w * y.n, y.d)),
             QAdd(QFrac(y.w * x.n, x.d), QFrac(x.n * y.n, x.d * y.d))) :
          x \in {a}, y \in {b} } :
      TRUE

\* a / k for an integer k > 0.
QDivInt(a, k) ==
    CHOOSE r \in { QAdd(QFrac(x.w, k), QFrac(x.n, x.d * k)) : x \in {a} } : TRUE

\* a / b for b # 0.
QDiv(a, b) ==
    CHOOSE r \in
      { LET num == (x.w * x.d + x.n) * y.d
            den == x.d * (y.w * y.d + y.n)
        IN  IF den > 0 THEN QFrac(num, den) ELSE QFrac(-num, -den) :
          x \in {a}, y \in {b} } :
      TRUE

\* Python's round(x) of the rational p / q (q > 0): to nearest, ties to even.
RoundDiv(p, q) ==
    LET f == p \div q
        r == p % q
    IN  IF 2 * r < q THEN f
        ELSE IF 2 * r > q THEN f + 1
        ELSE IF f % 2 = 0 THEN f ELSE f + 1

\* round(a, 2) of the rational a, in hundredths.
QRound2(a) ==
    CHOOSE r \in { 100 * x.w + RoundDiv(100 * x.n, x.d) : x \in {a} } : TRUE

---------------------------------------------------------------------------
(* Events of a method call.                                                *)

Ev(fn, op, reg, val) == [fn |-> fn, op |-> op, reg |-> reg, val |-> val]

\* What a register may read back after `written` was written to it.
Readbacks(written) == {written, written + 1}

---------------------------------------------------------------------------
(* The wall clock.  utcnow() is the system's wall clock: it normally moves *)
(* forward and may be set back.                                            *)

ClockTick ==
    /\ clock.moves < MaxClockMoves
    /\ clock' = [now |-> clock.now + 1, moves |-> clock.moves + 1]
    /\ UNCHANGED <<ina, bme, sht, mcp, ds, mpl>>

ClockSetBack ==
    /\ clock.moves < MaxClockMoves
    /\ clock.now > 0
    /\ clock' = [now |-> clock.now - 1, moves |-> clock.moves + 1]
    /\ UNCHANGED <<ina, bme, sht, mcp, ds, mpl>>

---------------------------------------------------------------------------
(* INA233.                                                                 *)
(*                                                                         *)
(* Units: current_lsb is held as the integer c with current_lsb = c/2^15 A *)
(* (c = max_i); total_e in 2^-15 W; energy_acc and the value returned by   *)
(* e_read in 1/(2^15 * 3600 * 1000) kWh; r_shunt in micro-ohms.            *)
(* The fields pre, mono and the locals kept from the latest e_read         *)
(* (ein_read, samples, total_e, t) are there for the properties; pre is    *)
(* the (energy_acc, last) pair on entry to the latest call, mono says that *)
(* no non-empty e_read since the latest reset saw the clock behind last.   *)

\* max_i values a driver is constructed with (amperes, > 0; the default is 15).
MaxIValues == {1, 15}

\* r_shunt values (micro-ohms; the default is 0.002 ohm).
RShuntValues == {2000}

\* 7-byte answers to the READ_EIN block read (0x86): byte 0 is the byte
\* count, bytes 1..2 the power accumulator, byte 3 the rollover count,
\* bytes 4..6 the sample count.  (Python indexes from 0, TLA+ from 1.)
EinBlocks ==
    { <<6, 100, 0, 0, 10, 0, 0>>,      \* pow_acc 100, rollover 0, 10 samples
      <<6, 0, 1, 0, 1, 0, 0>>,         \* pow_acc 256, rollover 0, 1 sample
      <<6, 1, 1, 1, 0, 1, 0>>,         \* pow_acc 257, rollover 1, 256 samples
      <<6, 255, 255, 2, 0, 0, 1>>,     \* pow_acc 65535, rollover 2, 65536 samples
      <<6, 100, 0, 1, 0, 0, 0>> }      \* 0 samples, accumulator not empty

INA233_absent ==
    [state |-> "absent", max_i |-> 0, r_shunt |-> 0, debug |-> FALSE,
     energy_acc |-> QInt(0), last |-> 0, current_lsb |-> 0,
     call |-> "none", log |-> <<>>, ret |-> QInt(0),
     ein_read |-> <<0, 0, 0, 0, 0, 0, 0>>, samples |-> 0, total_e |-> 0, t |-> 0,
     pre |-> [energy_acc |-> QInt(0), last |-> 0], mono |-> TRUE]

\* Faulty variant: the reset command is sent but the accumulator is kept.
INA233_set_defaults_keeps_energy(self, now) ==
    [self EXCEPT
        !.last = now,
        !.mono = TRUE,
        !.log = @ \o << Ev("set_defaults", "enter", 0, 0),
                        Ev("set_defaults", "write_byte", 18, 0),
                        Ev("set_defaults", "utcnow", 0, now) >>]

\* set_defaults: the hardware reset command, then the accumulator and the
\* timestamp are reset.
INA233_set_defaults(self, now) ==
    [self EXCEPT
        !.energy_acc = QInt(0),
        !.last = now,
        !.mono = TRUE,
        !.log = @ \o << Ev("set_defaults", "enter", 0, 0),
                        Ev("set_defaults", "write_byte", 18, 0),
                        Ev("set_defaults", "utcnow", 0, now) >>]

\* The read-back check of the three set_mfr_* methods: made, and reported,
\* only when debug is set.
INA233_readback_debug(fn, debug, written, read) ==
    IF debug
    THEN << Ev(fn, "compare", written, read),
            Ev(fn, IF read # written THEN "print_error" ELSE "print_ok", written, read) >>
    ELSE << >>

INA233_set_mfr_calibration(self, cal, rb) ==
    LET cali == Low(cal, 15)
    IN  [self EXCEPT
            !.log = @ \o << Ev("set_mfr_calibration", "enter", 0, 0),
                            Ev("set_mfr_calibration", "write_word", 212, cali),
                            Ev("set_mfr_calibration", "read_word", 212, rb) >>
                      \o INA233_readback_debug("set_mfr_calibration", self.debug, cali, rb)]

\* The MFR_ADC_CONFIG value built from the four fields.
INA233_adc_conf(avg, vbusct, vshct, mode) ==
    Shl(Low(4, 4), 12) + Shl(Low(avg, 3), 9) + Shl(Low(vbusct, 3), 6)
        + Shl(Low(vshct, 3), 3) + Shl(Low(mode, 3), 0)

INA233_set_mfr_adc_config(self, adc_conf, rb) ==
    [self EXCEPT
        !.log = @ \o << Ev("set_mfr_adc_config", "enter", 0, 0),
                        Ev("set_mfr_adc_config", "write_word", 208, adc_conf),
                        Ev("set_mfr_adc_config", "read_word", 208, rb) >>
                  \o INA233_readback_debug("set_mfr_adc_config", self.debug, adc_conf, rb)]

\* The MFR_DEVICE_CONFIG value built from the six fields.
INA233_dev_conf(ein_status, ein_accum, i2c_filt, read_ein, alert, apol) ==
    Shl(Low(ein_status, 1), 7) + Shl(Low(ein_accum, 2), 4)
        + Shl(Low(i2c_filt, 1), 3) + Shl(Low(read_ein, 1), 2)
        + Shl(Low(alert, 1), 1) + Shl(Low(apol, 1), 0)

INA233_set_mfr_device_config(self, dev_conf, rb) ==
    [self EXCEPT
        !.log = @ \o << Ev("set_mfr_device_config", "enter", 0, 0),
                        Ev("set_mfr_device_config", "write_byte_data", 213, dev_conf),
                        Ev("set_mfr_device_config", "read_byte_data", 213, rb) >>
                  \o INA233_readback_debug("set_mfr_device_config", self.debug, dev_conf, rb)]

\* cal_r = int(round(0.00512 / (current_lsb * r_shunt))) with
\* current_lsb = max_i / 2^15 and r_shunt in micro-ohms:
\* 0.00512 * 2^15 * 10^6 = 167772160.
INA233_cal_r(max_i, r_shunt) == RoundDiv(167772160, max_i * r_shunt)

\* The values init writes to MFR_DEVICE_CONFIG and MFR_ADC_CONFIG.
INA233_init_dev_conf == INA233_dev_conf(0, 0, 0, 1, 1, 0)

INA233_init_adc_conf == INA233_adc_conf(5, 5, 4, 7)

\* init: reset, compute current_lsb and the calibration word, then the three
\* configuration writes.  rb1..rb3 are what the three registers read back.
INA233_init(self, now, rb1, rb2, rb3) ==
    LET s0 == [self EXCEPT !.log = @ \o << Ev("init", "enter", 0, 0) >>]
        s1 == INA233_set_defaults(s0, now)
        s2 == [s1 EXCEPT
                 !.current_lsb = self.max_i,
                 !.log = @ \o (IF self.debug
                               THEN << Ev("init", "print", 0, 0) >> ELSE << >>)]
        cal_r == INA233_cal_r(self.max_i, self.r_shunt)
        s3 == [s2 EXCEPT
                 !.log = @ \o (IF self.debug
                               THEN << Ev("init", "print", 0, cal_r),
                                       Ev("init", "print", 0, s2.current_lsb) >>
                               ELSE << >>)]
        s4 == INA233_set_mfr_calibration(s3, cal_r, rb1)
        s5 == INA233_set_mfr_device_config(s4, INA233_init_dev_conf, rb2)
    IN  INA233_set_mfr_adc_config(s5, INA233_init_adc_conf, rb3)

\* __init__: the attributes, then init().
INA233_new(max_i, r_shunt, debug, now, rb1, rb2, rb3) ==
    LET s0 == [INA233_absent EXCEPT
                 !.max_i = max_i, !.r_shunt = r_shunt, !.debug = debug,
                 !.energy_acc = QInt(0), !.last = now,
                 !.log = << Ev("__init__", "enter", 0, 0),
                            Ev("__init__", "utcnow", 0, now) >>]
    IN  [INA233_init(s0, now, rb1, rb2, rb3) EXCEPT !.state = "ready"]

\* The fields of the 7-byte energy block.
INA233_pow_acc(ein_read) ==
    Low(ein_read[2], 8) + Shl(Low(ein_read[3], 8), 8)

INA233_pow_acc_roll(ein_read) == Low(ein_read[4], 8)

INA233_samples(ein_read) ==
    Low(ein_read[5], 8) + Shl(Low(ein_read[6], 8), 8)
        + Shl(Low(ein_read[7], 8), 16)

\* total_e = self.current_lsb*25*((pow_acc_roll * 0xFFFF) + pow_acc)
INA233_total_e(current_lsb, pow_acc_roll, pow_acc) ==
    current_lsb * 25 * ((pow_acc_roll * 65535) + pow_acc)

\* Faulty variant: the interval measured backwards.
INA233_dur_reversed(t, last) == last - t

\* dur = (t - self.last).total_seconds()
INA233_dur(t, last) == t - last

\* self.energy_acc += ((float(total_e)/samples)*dur)/(3600*1000)
INA233_accumulate(energy_acc, total_e, samples, dur) ==
    QAdd(energy_acc, QFrac(total_e * dur, samples))

\* The branch of e_read taken when samples != 0; s0 is the object after the
\* block read.
INA233_e_read_samples(s0, total_e, samples, t) ==
    LET dur == INA233_dur(t, s0.last)
        acc == INA233_accumulate(s0.energy_acc, total_e, samples, dur)
    IN  [s0 EXCEPT
           !.last = t,
           !.energy_acc = acc,
           !.mono = @ /\ t >= s0.last,
           !.log = @ \o (IF s0.debug
                         THEN << Ev("e_read", "print", 0, acc.w) >>
                         ELSE << >>),
           !.ret = acc]

\* Faulty variant: an empty sample still moves the timestamp.
INA233_e_read_empty_stamped(s0, t) == [s0 EXCEPT !.ret = QInt(0), !.last = t]

\* The branch of e_read taken when samples == 0: return 0.0.
INA233_e_read_empty(s0, t) == [s0 EXCEPT !.ret = QInt(0)]

\* e_read: the block read, the clock reading t, then the accumulation.
INA233_e_read(self, ein_read, t) ==
    LET pow_acc == INA233_pow_acc(ein_read)
        pow_acc_roll == INA233_pow_acc_roll(ein_read)
        samples == INA233_samples(ein_read)
        total_e == INA233_total_e(self.current_lsb, pow_acc_roll, pow_acc)
        s0 == [self EXCEPT
                 !.ein_read = ein_read, !.samples = samples,
                 !.total_e = total_e, !.t = t,
                 !.log = @ \o << Ev("e_read", "enter", 0, 0),
                                 Ev("e_read", "read_block", 134, 7),
                                 Ev("e_read", "utcnow", 0, t) >>]
    IN  IF samples # 0
        THEN INA233_e_read_samples(s0, total_e, samples, t)
        ELSE INA233_e_read_empty(s0, t)

\* Entry to a public method: the log and the record of the latest call start
\* afresh, and the snapshot of (energy_acc, last) is taken.
INA233_enter(self, name) ==
    [self EXCEPT
        !.call = name, !.log = << >>, !.ret = QInt(0),
        !.ein_read = <<0, 0, 0, 0, 0, 0, 0>>, !.samples = 0, !.total_e = 0, !.t = 0,
        !.pre = [energy_acc |-> self.energy_acc, last |-> self.last]]

INA233_Construct ==
    /\ ina.state = "absent"
    /\ \E max_i \in MaxIValues, r_shunt \in RShuntValues, debug \in BOOLEAN :
         \E rb1 \in Readbacks(Low(INA233_cal_r(max_i, r_shunt), 15)),
            rb2 \in Readbacks(INA233_init_dev_conf),
            rb3 \in Readbacks(INA233_init_adc_conf) :
            ina' = [INA233_new(max_i, r_shunt, debug, clock.now, rb1, rb2, rb3)
                      EXCEPT !.call = "__init__"]
    /\ UNCHANGED <<clock, bme, sht, mcp, ds, mpl>>

INA233_Init ==
    /\ ina.state = "ready"
    /\ \E rb1 \in Readbacks(Low(INA233_cal_r(ina.max_i, ina.r_shunt), 15)),
          rb2 \in Readbacks(INA233_init_dev_conf),
          rb3 \in Readbacks(INA233_init_adc_conf) :
          ina' = INA233_init(INA233_enter(ina, "init"), clock.now, rb1, rb2, rb3)
    /\ UNCHANGED <<clock, bme, sht, mcp, ds, mpl>>

INA233_SetDefaults ==
    /\ ina.state = "ready"
    /\ ina' = INA233_set_defaults(INA233_enter(ina, "set_defaults"), clock.now)
    /\ UNCHANGED <<clock, bme, sht, mcp, ds, mpl>>

INA233_ERead ==
    /\ ina.state = "ready"
    /\ \E ein_read \in EinBlocks :
          ina' = INA233_e_read(INA233_enter(ina, "e_read"), ein_read, clock.now)
    /\ UNCHANGED <<clock, bme, sht, mcp, ds, mpl>>

\* Arguments the configuration methods are called with.
CalArgs == {0, 5592, 40000}

INA233_SetMfrCalibration ==
    /\ ina.state = "ready"
    /\ \E cal \in CalArgs : \E rb \in Readbacks(Low(cal, 15)) :
          ina' = INA233_set_mfr_calibration(
                     INA233_enter(ina, "set_mfr_calibration"), cal, rb)
    /\ UNCHANGED <<clock, bme, sht, mcp, ds, mpl>>

INA233_SetMfrDeviceConfig ==
    /\ ina.state = "ready"
    /\ \E read_ein \in {0, 1}, ein_accum \in {0, 3} :
         LET dev_conf == INA233_dev_conf(0, ein_accum, 0, read_ein, 1, 0)
         IN  \E rb \in Readbacks(dev_conf) :
               ina' = INA233_set_mfr_device_config(
                          INA233_enter(ina, "set_mfr_device_config"), dev_conf, rb)
    /\ UNCHANGED <<clock, bme, sht, mcp, ds, mpl>>

INA233_SetMfrAdcConfig ==
    /\ ina.state = "ready"
    /\ \E avg \in {0, 5}, mode \in {7, 8} :
         LET adc_conf == INA233_adc_conf(avg, 4, 4, mode)
         IN  \E rb \in Readbacks(adc_conf) :
               ina' = INA233_set_mfr_adc_config(
                          INA233_enter(ina, "set_mfr_adc_config"), adc_conf, rb)
    /\ UNCHANGED <<clock, bme, sht, mcp, ds, mpl>>

---------------------------------------------------------------------------
(* BME280.                                                                 *)
(*                                                                         *)
(* trim26 and trim7 keep the two calibration blocks the device answered    *)
(* to the latest get_trim_data (Python indexes them from 0, TLA+ from 1).  *)

\* Byte values the calibration blocks are filled with.
TrimBytes == {0, 127, 128, 165, 255}

\* A block of n bytes repeating the three bytes of pat.
PatternBlock(pat, n) == [i \in 1..n |-> pat[((i - 1) % 3) + 1]]

TrimPatterns == TrimBytes \X TrimBytes \X TrimBytes

\* The locals of the latest get_measurements that the properties read:
\* t_fine, the normalized scratch variable p1, the humidity polynomial h1
\* (line 91), the three compensated values, whether the pressure branch
\* divided by p1, and whether the call raised.
BME280_no_meas ==
    [done |-> FALSE, t_fine |-> QInt(0), t_comp |-> QInt(0),
     p1 |-> QInt(0), p_comp |-> QInt(0), divided |-> FALSE,
     h1 |-> QInt(0), h_comp |-> QInt(0), raised |-> FALSE]

BME280_absent ==
    [state |-> "absent",
     mode |-> 0, osrs_t |-> 0, osrs_h |-> 0, osrs_p |-> 0,
     t_sb |-> 0, filter |-> 0, spi3w_en |-> 0,
     dig_T1 |-> 0, dig_T2 |-> 0, dig_T3 |-> 0,
     dig_P1 |-> 0, dig_P2 |-> 0, dig_P3 |-> 0, dig_P4 |-> 0, dig_P5 |-> 0,
     dig_P6 |-> 0, dig_P7 |-> 0, dig_P8 |-> 0, dig_P9 |-> 0,
     dig_H1 |-> 0, dig_H2 |-> 0, dig_H3 |-> 0, dig_H4 |-> 0, dig_H5 |-> 0,
     dig_H6 |-> 0,
     call |-> "none", log |-> << >>,
     trim26 |-> PatternBlock(<<0, 0, 0>>, 26), trim7 |-> PatternBlock(<<0, 0, 0>>, 7),
     data |-> << >>, ret |-> << >>, meas |-> BME280_no_meas]

\* Faulty variant: the register is read back before the settle delay.
BME280_write_verified_early_read(fn, reg, data, out) ==
    << Ev(fn, "enter", 0, 0),
       Ev(fn, "write_byte_data", reg, data),
       Ev(fn, "read_byte_data", reg, out),
       Ev(fn, "sleep", 0, 100),
       Ev(fn, "compare", data, out) >>
    \o (IF out # data THEN << Ev(fn, "print_error", data, out) >> ELSE << >>)

\* A configuration write of the BME280: write, sleep 0.1 s, read back,
\* compare, and print when the two differ.
BME280_write_verified(fn, reg, data, out) ==
    << Ev(fn, "enter", 0, 0),
       Ev(fn, "write_byte_data", reg, data),
       Ev(fn, "sleep", 0, 100),
       Ev(fn, "read_byte_data", reg, out),
       Ev(fn, "compare", data, out) >>
    \o (IF out # data THEN << Ev(fn, "print_error", data, out) >> ELSE << >>)

BME280_config_data(self) ==
    Shl(Low(self.t_sb, 3), 5) + Shl(Low(self.filter, 3), 2)
        + Low(self.spi3w_en, 1)

BME280_set_config(self, out) ==
    [self EXCEPT
        !.log = @ \o BME280_write_verified("set_config", 245,
                                           BME280_config_data(self), out)]

BME280_ctrl_meas_data(self) ==
    Shl(Low(self.osrs_t, 3), 5) + Shl(Low(self.osrs_p, 3), 2)
        + Low(self.mode, 2)

BME280_set_ctrl_meas(self, out) ==
    [self EXCEPT
        !.log = @ \o BME280_write_verified("set_ctrl_meas", 244,
                                           BME280_ctrl_meas_data(self), out)]

BME280_ctrl_hum_data(self) == Low(self.osrs_h, 3)

BME280_set_ctrl_hum(self, out) ==
    [self EXCEPT
        !.log = @ \o BME280_write_verified("set_ctrl_hum", 242,
                                           BME280_ctrl_hum_data(self), out)]

\* (lo & 0xFF) + ((hi & 0xFF) << 8)
BME280_word(lo, hi) == Low(lo, 8) + Shl(Low(hi, 8), 8)

\* if v & 0x8000: v = v - (1 << 16)
BME280_sign16(v) == IF Bit(v, 15) = 1 THEN v - Shl(1, 16) ELSE v

\* Faulty variant: the 12-bit field sign-extended as if it were 16 bits wide.
BME280_sign12_as16(v) == IF Bit(v, 15) = 1 THEN v - Shl(1, 16) ELSE v

\* if v & 0x0800: v = v - (1 << 12)
BME280_sign12(v) == IF Bit(v, 11) = 1 THEN v - Shl(1, 12) ELSE v

\* if v & 0x80: v = v - (1 << 8)
BME280_sign8(v) == IF Bit(v, 7) = 1 THEN v - Shl(1, 8) ELSE v

\* get_trim_data: d is the 26-byte block read at 0x88, e the 7-byte block
\* read at 0xE1.
BME280_get_trim_data(self, d, e) ==
    [self EXCEPT
        !.dig_T1 = BME280_word(d[1], d[2]),
        !.dig_T2 = BME280_sign16(BME280_word(d[3], d[4])),
        !.dig_T3 = BME280_sign16(BME280_word(d[5], d[6])),
        !.dig_P1 = BME280_word(d[7], d[8]),
        !.dig_P2 = BME280_sign16(BME280_word(d[9], d[10])),
        !.dig_P3 = BME280_sign16(BME280_word(d[11], d[12])),
        !.dig_P4 = BME280_sign16(BME280_word(d[13], d[14])),
        !.dig_P5 = BME280_sign16(BME280_word(d[15], d[16])),
        !.dig_P6 = BME280_sign16(BME280_word(d[17], d[18])),
        !.dig_P7 = BME280_sign16(BME280_word(d[19], d[20])),
        !.dig_P8 = BME280_sign16(BME280_word(d[21], d[22])),
        !.dig_P9 = BME280_sign16(BME280_word(d[23], d[24])),
        !.dig_H1 = Low(d[26], 8),
        !.dig_H2 = BME280_sign16(BME280_word(e[1], e[2])),
        !.dig_H3 = Low(e[3], 8),
        !.dig_H4 = BME280_sign12(Shl(Low(e[4], 8), 4) + Low(e[5], 4)),
        !.dig_H5 = BME280_sign12(Shr(HighNibble(e[5]), 4) + Shl(Low(e[6], 8), 4)),
        !.dig_H6 = BME280_sign8(Low(e[7], 8)),
        !.trim26 = d,
        !.trim7 = e,
        !.log = @ \o << Ev("get_trim_data", "enter", 0, 0),
                        Ev("get_trim_data", "read_block", 136, 26),
                        Ev("get_trim_data", "read_block", 225, 7) >>]

\* The attributes __init__ sets before it initialises the device.
BME280_attrs ==
    [BME280_absent EXCEPT
        !.mode = 3, !.osrs_t = 5, !.osrs_h = 5, !.osrs_p = 5,
        !.t_sb = 6, !.filter = 4, !.spi3w_en = 0,
        !.log = << Ev("__init__", "enter", 0, 0) >>]

\* Faulty variant: construction gives up at the first read-back mismatch.
BME280_new_aborting(out1, out2, out3, d, e) ==
    LET s0 == BME280_attrs
        s1 == BME280_set_ctrl_hum(s0, out1)
        s2 == BME280_set_config(s1, out2)
        s3 == BME280_set_ctrl_meas(s2, out3)
        s4 == BME280_get_trim_data(s3, d, e)
    IN  IF out1 # BME280_ctrl_hum_data(s0) THEN s1
        ELSE IF out2 # BME280_config_data(s1) THEN s2
        ELSE IF out3 # BME280_ctrl_meas_data(s2) THEN s3
        ELSE [s4 EXCEPT !.state = "ready"]

\* __init__: the attributes, then the three configuration writes and
\* get_trim_data.  out1..out3 are what the three registers read back.
BME280_new(out1, out2, out3, d, e) ==
    LET s0 == BME280_attrs
        s1 == BME280_set_ctrl_hum(s0, out1)
        s2 == BME280_set_config(s1, out2)
        s3 == BME280_set_ctrl_meas(s2, out3)
        s4 == BME280_get_trim_data(s3, d, e)
    IN  [s4 EXCEPT !.state = "ready"]

BME280_enter(self, name) ==
    [self EXCEPT !.call = name, !.log = << >>,
                 !.data = << >>, !.ret = << >>, !.meas = BME280_no_meas]

BME280_ConstructWith(patterns) ==
    /\ bme.state = "absent"
    /\ \E pat \in patterns :
       \E out1 \in Readbacks(BME280_ctrl_hum_data(BME280_attrs)),
          out2 \in Readbacks(BME280_config_data(BME280_attrs)),
          out3 \in Readbacks(BME280_ctrl_meas_data(BME280_attrs)) :
          bme' = [BME280_new(out1, out2, out3,
                             PatternBlock(pat, 26), PatternBlock(pat, 7))
                    EXCEPT !.call = "__init__"]
    /\ UNCHANGED <<clock, ina, sht, mcp, ds, mpl>>

BME280_Construct == BME280_ConstructWith(TrimPatterns)

BME280_GetTrimData ==
    /\ bme.state = "ready"
    /\ \E pat \in TrimPatterns :
          bme' = BME280_get_trim_data(BME280_enter(bme, "get_trim_data"),
                                      PatternBlock(pat, 26), PatternBlock(pat, 7))
    /\ UNCHANGED <<clock, ina, sht, mcp, ds, mpl>>

BME280_SetConfig ==
    /\ bme.state = "ready"
    /\ \E out \in Readbacks(BME280_config_data(bme)) :
          bme' = BME280_set_config(BME280_enter(bme, "set_config"), out)
    /\ UNCHANGED <<clock, ina, sht, mcp, ds, mpl>>

BME280_SetCtrlMeas ==
    /\ bme.state = "ready"
    /\ \E out \in Readbacks(BME280_ctrl_meas_data(bme)) :
          bme' = BME280_set_ctrl_meas(BME280_enter(bme, "set_ctrl_meas"), out)
    /\ UNCHANGED <<clock, ina, sht, mcp, ds, mpl>>

BME280_SetCtrlHum ==
    /\ bme.state = "ready"
    /\ \E out \in Readbacks(BME280_ctrl_hum_data(bme)) :
          bme' = BME280_set_ctrl_hum(BME280_enter(bme, "set_ctrl_hum"), out)
    /\ UNCHANGED <<clock, ina, sht, mcp, ds, mpl>>

---------------------------------------------------------------------------
(* BME280 measurements.  The compensation formulas are float arithmetic;   *)
(* the model computes them in exact rationals, which is what the floats    *)
(* hold for the inputs below (every intermediate value is a dyadic         *)
(* fraction of fewer than 53 bits, up to the final division by 100).       *)

\* 8-byte answers to the block read at 0xF7: pressure (bytes 0..2),
\* temperature (bytes 3..5), humidity (bytes 6..7).
RawSamples ==
    { <<192, 0, 15, 128, 0, 0, 1, 200>>,     \* t_raw 0x80000, h_raw 456
      <<192, 0, 0, 128, 32, 0, 0, 0>>,       \* t_raw 0x80200, h_raw 0
      <<192, 0, 0, 128, 32, 15, 1, 200>>,    \* t_raw 0x80200, h_raw 456
      <<192, 0, 0, 128, 32, 0, 4, 232>>,     \* t_raw 0x80200, h_raw 1256
      <<192, 0, 0, 0, 0, 0, 4, 232>>,        \* t_raw 0, h_raw 1256
      <<192, 0, 0, 128, 0, 0, 0, 0>>,        \* t_raw 0x80000, h_raw 0
      <<208, 0, 0, 128, 32, 0, 1, 100>> }    \* p_raw 0xD0000, h_raw 356

\* Calibration blocks (26 bytes at 0x88, 7 bytes at 0xE1) of the devices
\* measured: dig_T2 = 2400, dig_P7 = 1600, dig_H1 = 75, dig_H2 = 16384,
\* dig_H4 = 4 in the first two, with dig_P1 = 32768 in the first and 0 in
\* the second; the third is a device whose calibration memory reads all
\* zeroes; the fourth has dig_H2 = -16384, dig_H1 = dig_H4 = dig_P7 = 0.
MeasureTrims ==
    { << <<0, 0, 96, 9, 0, 0, 0, 128, 0, 0, 0, 0, 0, 0, 0, 0, 0, 0, 64, 6,
           0, 0, 0, 0, 0, 75>>,
         <<0, 64, 0, 0, 4, 0, 0>> >>,
      << <<0, 0, 96, 9, 0, 0, 0, 0, 0, 0, 0, 0, 0, 0, 0, 0, 0, 0, 64, 6,
           0, 0, 0, 0, 0, 75>>,
         <<0, 64, 0, 0, 4, 0, 0>> >>,
      << PatternBlock(<<0, 0, 0>>, 26), PatternBlock(<<0, 0, 0>>, 7) >>,
      << <<0, 0, 96, 9, 0, 0, 0, 128, 0, 0, 0, 0, 0, 0, 0, 0, 0, 0, 0, 0,
           0, 0, 0, 0, 0, 0>>,
         <<0, 192, 0, 0, 0, 0, 0>> >> }

\* get_raw: the three raw values, in the order returned (t_raw, p_raw, h_raw).
BME280_get_raw(data) ==
    << Shl(Low(data[4], 8), 12) + Shl(Low(data[5], 8), 4) + Shr(HighNibble(data[6]), 4),
       Shl(Low(data[1], 8), 12) + Shl(Low(data[2], 8), 4) + Shr(HighNibble(data[3]), 4),
       Shl(Low(data[7], 8), 8) + Low(data[8], 8) >>

\* t_fine = t1 + t2
BME280_t_fine(self, t_raw) ==
    LET t1 == QMul(QSub(QFrac(t_raw, 16384), QFrac(self.dig_T1, 1024)),
                   QInt(self.dig_T2))
        t2 == CHOOSE r \in
                { QMul(QMul(u, u), QInt(self.dig_T3)) :
                    u \in {QSub(QFrac(t_raw, 131072), QFrac(self.dig_T1, 8192))} } :
                TRUE
    IN  QAdd(t1, t2)

\* The second scratch variable (lines 64-66); sq is ((p1 / 4.0) * (p1 / 4.0)).
BME280_p2(self, p1, sq) ==
    LET p2a == QMul(QDivInt(sq, 2048), QInt(self.dig_P6))
        p2b == QAdd(p2a, QMul(QMul(p1, QInt(self.dig_P5)), QInt(2)))
    IN  QAdd(QDivInt(p2b, 4), QInt(self.dig_P4 * 65536))

\* The first scratch variable, normalized (lines 67-68).
BME280_p1(self, p1, sq) ==
    LET p1b == QDivInt(QAdd(QDivInt(QMul(QInt(self.dig_P3), QDivInt(sq, 8192)), 8),
                            QDivInt(QMul(QInt(self.dig_P2), p1), 2)),
                       262144)
    IN  QDivInt(QMul(QAdd(QInt(32768), p1b), QInt(self.dig_P1)), 32768)

\* The value `pressure` after the division by p1 (lines 73-77).
BME280_pressure_by_p1(p1, p2, p_raw) ==
    CHOOSE r \in
      { IF pr0.w <= 2147483647      \* pressure < 0x80000000
        THEN QDiv(QMul(pr0, QInt(2)), p1)
        ELSE QMul(QDiv(pr0, p1), QInt(2)) :
          pr0 \in {QMul(QSub(QInt(1048576 - p_raw), QDivInt(p2, 4096)),
                        QInt(3125))} } :
      TRUE

\* The pressure computed when p1 # 0 (lines 73-81); dividing by p1 = 0
\* raises ZeroDivisionError.
BME280_pressure_divided(self, p1, p2, p_raw) ==
    IF p1 = QInt(0)
    THEN [p_comp |-> QInt(0), raised |-> TRUE]
    ELSE
      CHOOSE r \in
        { LET p1n == CHOOSE q \in
                       { QDivInt(QMul(QInt(self.dig_P9),
                                      QDivInt(QMul(e, e), 8192)), 4096) :
                           e \in {QDivInt(pr1, 8)} } :
                       TRUE
              p2n == QDivInt(QMul(QDivInt(pr1, 4), QInt(self.dig_P8)), 8192)
              pr2 == QAdd(pr1, QDivInt(QAdd(QAdd(p1n, p2n), QInt(self.dig_P7)), 16))
          IN  [p_comp |-> QDivInt(pr2, 100), raised |-> FALSE] :
            pr1 \in {BME280_pressure_by_p1(p1, p2, p_raw)} } :
        TRUE

\* Faulty variant: no guard, the pressure is always divided by p1.
BME280_p1_guard_missing(p1) == FALSE

\* if p1 == 0:
BME280_p1_is_zero(p1) == p1 = QInt(0)

\* The branch on p1 (lines 70-81); p1 is normalized.
BME280_pressure_guarded(self, p1, p2, p_raw) ==
    IF BME280_p1_is_zero(p1)
    THEN [p1 |-> p1, p_comp |-> QInt(0), divided |-> FALSE, raised |-> FALSE]
    ELSE CHOOSE r \in
           { [p1 |-> p1, p_comp |-> d.p_comp, divided |-> TRUE,
              raised |-> d.raised] :
               d \in {BME280_pressure_divided(self, p1, p2, p_raw)} } :
           TRUE

\* The pressure part of get_measurements (lines 63-81).
BME280_pressure(self, t_fine, p_raw) ==
    CHOOSE r \in
      { CHOOSE q \in
          { CHOOSE o \in
              { BME280_pressure_guarded(self, p1, p2, p_raw) :
                  p1 \in {BME280_p1(self, p1a, sq)},
                  p2 \in {BME280_p2(self, p1a, sq)} } :
              TRUE :
            \* ((p1 / 4.0) * (p1 / 4.0))
            sq \in {QMul(QDivInt(p1a, 4), QDivInt(p1a, 4))} } :
          TRUE :
        \* p1 = (t_fine / 2.0) - 64000.0
        p1a \in {QSub(QDivInt(t_fine, 2), QInt(64000))} } :
      TRUE

\* The humidity polynomial (lines 88-91); h0 is t_fine - 76800.
BME280_humidity_poly(self, h0, h_raw) ==
    LET a == QSub(QInt(h_raw),
                  QAdd(QInt(self.dig_H4 * 64),
                       QMul(QFrac(self.dig_H5, 16384), h0)))
        c == QAdd(QInt(1), QMul(QFrac(self.dig_H3, 67108864), h0))
        b == QMul(QFrac(self.dig_H2, 65536),
                  QAdd(QInt(1), QMul(QMul(QFrac(self.dig_H6, 67108864), h0), c)))
    IN  CHOOSE r \in
          { QMul(h1, QSub(QInt(1),
                          QDivInt(QMul(QInt(self.dig_H1), h1), 524288))) :
              h1 \in {QMul(a, b)} } :
          TRUE

\* Faulty variant: only the lower bound is checked.
BME280_humidity_bounds_lower_only(h1) ==
    IF ~QLeq(QInt(0), h1) THEN QInt(0) ELSE h1

\* Check within bounds (lines 93-98).
BME280_humidity_bounds(h1) ==
    IF ~QLeq(h1, QInt(100)) THEN QInt(100)
    ELSE IF ~QLeq(QInt(0), h1) THEN QInt(0)
    ELSE h1

\* The humidity part of get_measurements (lines 84-98).
BME280_humidity(self, t_fine, h_raw) ==
    CHOOSE r \in
      { IF h0 = QInt(0)
        THEN [h1 |-> h0, h_comp |-> QInt(0)]
        ELSE CHOOSE q \in
               { [h1 |-> h1, h_comp |-> BME280_humidity_bounds(h1)] :
                   h1 \in {BME280_humidity_poly(self, h0, h_raw)} } :
               TRUE :
          h0 \in {QSub(t_fine, QInt(76800))} } :
      TRUE

\* Faulty variant: the fine temperature is kept in the object, in dig_T1.
BME280_get_measurements_storing(self, data) ==
    [self EXCEPT !.dig_T1 = BME280_t_fine(self, BME280_get_raw(data)[1]).w,
                 !.data = data, !.ret = <<0, 0, 0>>,
                 !.meas = [BME280_no_meas EXCEPT !.done = TRUE]]

\* The object after get_measurements has computed t_fine, the pressure
\* record p and the humidity record h from data.
BME280_measured(self, data, t_fine, p, h) ==
    CHOOSE r \in
      { [self EXCEPT
           !.data = data,
           !.meas = [done |-> TRUE, t_fine |-> t_fine, t_comp |-> t_comp,
                     p1 |-> p.p1, p_comp |-> p.p_comp, divided |-> p.divided,
                     h1 |-> h.h1, h_comp |-> h.h_comp, raised |-> p.raised],
           !.ret = IF p.raised THEN << >>
                   ELSE << QRound2(t_comp), QRound2(p.p_comp),
                           QRound2(h.h_comp) >>,
           !.log = @ \o << Ev("get_measurements", "enter", 0, 0),
                           Ev("get_raw", "enter", 0, 0),
                           Ev("get_raw", "read_block", 247, 8) >>] :
          \* t_comp = t_fine / 5120.0
          t_comp \in {QDivInt(t_fine, 5120)} } :
      TRUE

\* get_measurements: data is the 8-byte block get_raw reads.  The three
\* values returned are held in hundredths.
BME280_get_measurements(self, data) ==
    CHOOSE r \in
      { CHOOSE q \in
          { CHOOSE o \in
              { BME280_measured(self, data, t_fine, p, h) :
                  p \in {BME280_pressure(self, t_fine, raw[2])},
                  h \in {BME280_humidity(self, t_fine, raw[3])} } :
              TRUE :
            t_fine \in {BME280_t_fine(self, raw[1])} } :
          TRUE :
        raw \in {BME280_get_raw(data)} } :
      TRUE

\* reset: the soft-reset command, then a print.
BME280_reset(self) ==
    [self EXCEPT !.log = @ \o << Ev("reset", "enter", 0, 0),
                                 Ev("reset", "write_byte_data", 224, 182),
                                 Ev("reset", "print", 0, 0) >>]

\* get_id: the chip id, reported when it is not 0x60.
BME280_get_id(self, data) ==
    [self EXCEPT
        !.ret = << data >>,
        !.log = @ \o << Ev("get_id", "enter", 0, 0),
                        Ev("get_id", "read_byte_data", 208, data) >>
                  \o (IF data # 96 THEN << Ev("get_id", "print_error", 96, data) >>
                      ELSE << >>)]

\* get_status: 1 while measuring or updating, 0 otherwise.
BME280_get_status(self, data) ==
    [self EXCEPT
        !.ret = << IF Bit(data, 0) = 1 \/ Bit(data, 3) = 1 THEN 1 ELSE 0 >>,
        !.log = @ \o << Ev("get_status", "enter", 0, 0),
                        Ev("get_status", "read_byte_data", 243, data),
                        Ev("get_status", "print", 0, data) >>]

BME280_ConstructMeasured ==
    /\ bme.state = "absent"
    /\ \E trim \in MeasureTrims :
       \E out1 \in Readbacks(BME280_ctrl_hum_data(BME280_attrs)),
          out2 \in Readbacks(BME280_config_data(BME280_attrs)),
          out3 \in Readbacks(BME280_ctrl_meas_data(BME280_attrs)) :
          bme' = [BME280_new(out1, out2, out3, trim[1], trim[2])
                    EXCEPT !.call = "__init__"]
    /\ UNCHANGED <<clock, ina, sht, mcp, ds, mpl>>

BME280_GetMeasurements ==
    /\ bme.state = "ready"
    /\ \E data \in RawSamples :
          bme' = BME280_get_measurements(BME280_enter(bme, "get_measurements"), data)
    /\ UNCHANGED <<clock, ina, sht, mcp, ds, mpl>>

BME280_GetRaw ==
    /\ bme.state = "ready"
    /\ \E data \in RawSamples :
          bme' = [BME280_enter(bme, "get_raw") EXCEPT
                    !.data = data, !.ret = BME280_get_raw(data),
                    !.log = << Ev("get_raw", "enter", 0, 0),
                               Ev("get_raw", "read_block", 247, 8) >>]
    /\ UNCHANGED <<clock, ina, sht, mcp, ds, mpl>>

BME280_Reset ==
    /\ bme.state = "ready"
    /\ bme' = BME280_reset(BME280_enter(bme, "reset"))
    /\ UNCHANGED <<clock, ina, sht, mcp, ds, mpl>>

BME280_GetId ==
    /\ bme.state = "ready"
    /\ \E data \in {96, 88} :
          bme' = BME280_get_id(BME280_enter(bme, "get_id"), data)
    /\ UNCHANGED <<clock, ina, sht, mcp, ds, mpl>>

BME280_GetStatus ==
    /\ bme.state = "ready"
    /\ \E data \in {0, 1, 8, 4} :
          bme' = BME280_get_status(BME280_enter(bme, "get_status"), data)
    /\ UNCHANGED <<clock, ina, sht, mcp, ds, mpl>>

---------------------------------------------------------------------------
(* SHT31.                                                                  *)
(*                                                                         *)
(* Units: cal_t, cal_h and the two values rht_read returns are held in     *)
(* hundredths (of a degree Celsius, of a percent).  The fields data,       *)
(* ret_t, ret_h, crc_in and crc_out are the argument, the bus answer and   *)
(* the return value of the latest call.                                    *)

\* (cal_t, cal_h) pairs a driver is constructed with, in hundredths.
CalValues == { <<0, 0>>, <<-150, 230>> }

\* Byte pairs (a 16-bit temperature or humidity word, high byte first) the
\* device answers with.
ShtWords == { <<0, 0>>, <<190, 239>>, <<102, 102>>, <<255, 255>> }

\* Byte values crc_check is called on.
CrcBytes == {0, 128, 190, 239, 255}

SHT31_absent ==
    [state |-> "absent", crc |-> FALSE, cal_t |-> 0, cal_h |-> 0,
     call |-> "none", log |-> << >>,
     data |-> << >>, ret_t |-> 0, ret_h |-> 0,
     crc_in |-> << >>, crc_out |-> 0]

\* Faulty variant: the polynomial without its x^8 term, so the bit shifted
\* out of the byte is never cleared.
SHT31_crc_shift_0x31(crc) ==
    IF Bit(crc, 7) = 1 THEN BitXor(Shl(crc, 1), 49) ELSE Shl(crc, 1)

\* One round of the inner loop of crc_check.
SHT31_crc_shift(crc) ==
    IF Bit(crc, 7) = 1 THEN BitXor(Shl(crc, 1), 305) ELSE Shl(crc, 1)

\* for _ in range(k): the inner loop.
RECURSIVE SHT31_crc_bits(_, _)
SHT31_crc_bits(crc, k) ==
    IF k = 0 THEN crc ELSE SHT31_crc_bits(SHT31_crc_shift(crc), k - 1)

\* for byte in data[i..]: the outer loop, entered with the running crc.
RECURSIVE SHT31_crc_bytes(_, _, _)
SHT31_crc_bytes(crc, data, i) ==
    IF i > Len(data) THEN crc
    ELSE SHT31_crc_bytes(SHT31_crc_bits(BitXor(crc, data[i]), 8), data, i + 1)

SHT31_crc_check(data) == SHT31_crc_bytes(255, data, 1)

\* The checksum tests of rht_read, made only when self.crc is set.
SHT31_rht_crc(crc, data) ==
    IF crc
    THEN LET tsum == SHT31_crc_check(<<data[1], data[2]>>)
             hsum == SHT31_crc_check(<<data[4], data[5]>>)
         IN  << Ev("rht_read", "compare", tsum, Low(data[3], 8)) >>
             \o (IF tsum # Low(data[3], 8)
                 THEN << Ev("rht_read", "print_error", tsum, Low(data[3], 8)) >>
                 ELSE << >>)
             \o << Ev("rht_read", "compare", hsum, Low(data[6], 8)) >>
             \o (IF hsum # Low(data[6], 8)
                 THEN << Ev("rht_read", "print_error", hsum, Low(data[6], 8)) >>
                 ELSE << >>)
    ELSE << >>

\* round(-45 + 175 * temp / 65535 + cal_t, 2) in hundredths
\* (17500 / 65535 = 3500 / 13107).
SHT31_temperature(temp, cal_t) ==
    RoundDiv((cal_t - 4500) * 13107 + 3500 * temp, 13107)

\* round(100 * relh / 65535 + cal_h, 2) in hundredths
\* (10000 / 65535 = 2000 / 13107).
SHT31_humidity(relh, cal_h) ==
    RoundDiv(cal_h * 13107 + 2000 * relh, 13107)

\* Faulty variant: a sample whose checksum fails is replaced by zeroes.
SHT31_rht_value_rejecting(crc, cal_t, cal_h, data) ==
    LET temp == Shl(Low(data[1], 8), 8) + Low(data[2], 8)
        relh == Shl(Low(data[4], 8), 8) + Low(data[5], 8)
    IN  IF crc /\ (\/ SHT31_crc_check(<<data[1], data[2]>>) # Low(data[3], 8)
                   \/ SHT31_crc_check(<<data[4], data[5]>>) # Low(data[6], 8))
        THEN <<0, 0>>
        ELSE <<SHT31_temperature(temp, cal_t), SHT31_humidity(relh, cal_h)>>

\* The pair rht_read returns for the 6-byte answer data.
SHT31_rht_value(crc, cal_t, cal_h, data) ==
    LET temp == Shl(Low(data[1], 8), 8) + Low(data[2], 8)
        relh == Shl(Low(data[4], 8), 8) + Low(data[5], 8)
    IN  <<SHT31_temperature(temp, cal_t), SHT31_humidity(relh, cal_h)>>

SHT31_rht_read(self, data) ==
    LET v == SHT31_rht_value(self.crc, self.cal_t, self.cal_h, data)
    IN  [self EXCEPT
            !.data = data, !.ret_t = v[1], !.ret_h = v[2],
            !.log = @ \o << Ev("rht_read", "enter", 0, 0),
                            Ev("rht_read", "write_block", 44, 6),
                            Ev("rht_read", "read_block", 0, 6) >>
                      \o SHT31_rht_crc(self.crc, data)]

SHT31_reset(self) ==
    [self EXCEPT !.log = @ \o << Ev("reset", "enter", 0, 0),
                                 Ev("reset", "write_block", 48, 162) >>]

SHT31_new(crc, cal_t, cal_h) ==
    LET s0 == [SHT31_absent EXCEPT
                 !.crc = crc, !.cal_t = cal_t, !.cal_h = cal_h,
                 !.log = << Ev("__init__", "enter", 0, 0),
                            Ev("init", "enter", 0, 0),
                            Ev("init", "print", 0, 0) >>]
    IN  [SHT31_reset(s0) EXCEPT !.state = "ready"]

SHT31_enter(self, name) ==
    [self EXCEPT
        !.call = name, !.log = << >>, !.data = << >>, !.ret_t = 0, !.ret_h = 0,
        !.crc_in = << >>, !.crc_out = 0]

SHT31_Construct ==
    /\ sht.state = "absent"
    /\ \E crc \in BOOLEAN, cal \in CalValues :
          sht' = [SHT31_new(crc, cal[1], cal[2]) EXCEPT !.call = "__init__"]
    /\ UNCHANGED <<clock, ina, bme, mcp, ds, mpl>>

SHT31_Reset ==
    /\ sht.state = "ready"
    /\ sht' = SHT31_reset(SHT31_enter(sht, "reset"))
    /\ UNCHANGED <<clock, ina, bme, mcp, ds, mpl>>

\* The checksum a device computes for each byte pair it answers with.
DeviceChecksum == [p \in ShtWords |-> SHT31_crc_check(p)]

\* Checksum bytes that arrive with the pair p: the right one, or a
\* corrupted one.
ChecksumBytes(p) == {DeviceChecksum[p], (DeviceChecksum[p] + 1) % 256}

SHT31_RhtRead ==
    /\ sht.state = "ready"
    /\ \E t \in ShtWords, h \in ShtWords :
       \E tc \in ChecksumBytes(t), hc \in ChecksumBytes(h) :
          sht' = SHT31_rht_read(SHT31_enter(sht, "rht_read"),
                                <<t[1], t[2], tc, h[1], h[2], hc>>)
    /\ UNCHANGED <<clock, ina, bme, mcp, ds, mpl>>

\* Byte sequences of length 0..n over CrcBytes.
RECURSIVE CrcInputs(_)
CrcInputs(n) ==
    IF n = 0 THEN { << >> }
    ELSE LET shorter == CrcInputs(n - 1)
         IN  shorter \cup { Append(s, b) : s \in shorter, b \in CrcBytes }

SHT31_CrcCheck ==
    /\ sht.state = "ready"
    /\ \E data \in CrcInputs(MaxCrcLen) :
          sht' = [SHT31_enter(sht, "crc_check") EXCEPT
                    !.crc_in = data, !.crc_out = SHT31_crc_check(data),
                    !.log = << Ev("crc_check", "enter", 0, 0) >>]
    /\ UNCHANGED <<clock, ina, bme, mcp, ds, mpl>>

---------------------------------------------------------------------------
(* MCP9808.                                                                *)
(*                                                                         *)
(* Units: cal_t and the value t_read returns are held in hundredths of a   *)
(* degree Celsius.  tin is the answer to the latest read of the            *)
(* temperature register, bt the signed value t_read made of it.            *)

\* cal_t arguments of the temperature drivers, in hundredths (the default
\* is 0.0).
CalOffsets == {0, -150, 25}

\* 2-byte answers to the read of the temperature register (0x05); the three
\* high bits of byte 0 are alert flags.
McpWords ==
    { <<0, 0>>, <<0, 1>>, <<1, 148>>, <<225, 148>>,
      <<15, 255>>, <<16, 0>>, <<239, 255>>, <<240, 0>>,
      <<31, 255>>, <<255, 255>>, <<30, 107>> }

MCP9808_absent ==
    [state |-> "absent", res |-> 0, cal_t |-> 0,
     call |-> "none", log |-> << >>, tin |-> <<0, 0>>, bt |-> 0, ret |-> 0]

\* init: the configuration, the resolution (3 when out of range) and the
\* reads of the two id registers.
MCP9808_init(self) ==
    LET res == IF self.res > 3 \/ self.res < 0 THEN 3 ELSE self.res
    IN  [self EXCEPT
            !.res = res,
            !.log = @ \o << Ev("init", "enter", 0, 0),
                            Ev("init", "write_block", 1, 0),
                            Ev("init", "write_byte_data", 8, res),
                            Ev("init", "read_byte_data", 7, 0),
                            Ev("init", "read_block", 6, 2) >>]

MCP9808_new(resolution, cal_t) ==
    [MCP9808_init([MCP9808_absent EXCEPT
                      !.res = resolution, !.cal_t = cal_t,
                      !.log = << Ev("__init__", "enter", 0, 0) >>])
        EXCEPT !.state = "ready"]

\* bt = ((tin[0] & 0x1F) * 256) + tin[1]
MCP9808_bt(tin) == (Low(tin[1], 5) * 256) + tin[2]

\* Faulty variant: the boundary value 4096 is taken as positive.
MCP9808_twos_comp_above_4096(bt) == IF bt > 4096 THEN bt - 8192 ELSE bt

\* if bt > 4095: bt -= 8192
MCP9808_twos_comp(bt) == IF bt > 4095 THEN bt - 8192 ELSE bt

\* c_temp: bt times the LSB of the resolution, as a rational.
MCP9808_c_temp(res, bt) ==
    IF res = 0 THEN QFrac(bt, 2)
    ELSE IF res = 1 THEN QFrac(bt, 4)
    ELSE IF res = 2 THEN QFrac(bt, 8)
    ELSE IF res = 3 THEN QFrac(bt, 16)
    ELSE QFrac(bt, 16)

\* t_read: tin is what the temperature register reads.
MCP9808_t_read(self, tin) ==
    LET bt == MCP9808_twos_comp(MCP9808_bt(tin))
    IN  [self EXCEPT
            !.tin = tin, !.bt = bt,
            !.ret = QRound2(QAdd(MCP9808_c_temp(self.res, bt),
                                 QFrac(self.cal_t, 100))),
            !.log = @ \o << Ev("t_read", "enter", 0, 0),
                            Ev("t_read", "read_block", 5, 2) >>]

MCP9808_enter(self, name) ==
    [self EXCEPT !.call = name, !.log = << >>,
                 !.tin = <<0, 0>>, !.bt = 0, !.ret = 0]

MCP9808_Construct ==
    /\ mcp.state = "absent"
    /\ \E resolution \in {-1, 0, 1, 2, 3, 4}, cal_t \in CalOffsets :
          mcp' = [MCP9808_new(resolution, cal_t) EXCEPT !.call = "__init__"]
    /\ UNCHANGED <<clock, ina, bme, sht, ds, mpl>>

MCP9808_Init ==
    /\ mcp.state = "ready"
    /\ mcp' = MCP9808_init(MCP9808_enter(mcp, "init"))
    /\ UNCHANGED <<clock, ina, bme, sht, ds, mpl>>

MCP9808_TRead ==
    /\ mcp.state = "ready"
    /\ \E tin \in McpWords :
          mcp' = MCP9808_t_read(MCP9808_enter(mcp, "t_read"), tin)
    /\ UNCHANGED <<clock, ina, bme, sht, ds, mpl>>

---------------------------------------------------------------------------
(* DS18B20.                                                                *)
(*                                                                         *)
(* The 1-Wire library either answers or raises; what it does is an input   *)
(* of the action.  Units: the library's temperature is held in sixteenths  *)
(* of a degree (the sensor's finest step), cal_t and the value returned in *)
(* hundredths.  err is the exception that left the latest call (type       *)
(* "none" when it returned), cause the library exception behind it, and    *)
(* kinds the (cause, propagated type) pairs of the failed t_read calls so  *)
(* far.                                                                    *)

\* Temperatures the library answers, in sixteenths of a degree.
DsTemperatures == {0, 1, 6, 400, -16, -880}

\* The exceptions of the library that t_read and init catch.
TReadErrors == {"NoSensorFoundError", "SensorNotReadyError", "ResetValueError"}

InitErrors == {"NoSensorFoundError", "KernelModuleLoadError"}

NoError == [type |-> "none", context |-> "none"]

DS18B20_absent ==
    [state |-> "absent", device_id |-> 0, resolution |-> 0, cal_t |-> 0,
     call |-> "none", log |-> << >>, ret |-> << >>,
     err |-> NoError, cause |-> "none", kinds |-> {}]

\* `raise Exception()` inside the handler of the library exception caught:
\* a new exception of the base type, without arguments; Python keeps the
\* exception being handled as its __context__.
DS18B20_raise(caught) == [type |-> "Exception", context |-> caught]

\* init: outcome is "ok" or the exception the library raises.
DS18B20_init(self, outcome) ==
    IF outcome = "ok"
    THEN [self EXCEPT
             !.state = "ready",
             !.log = @ \o << Ev("init", "enter", 0, 0),
                             Ev("init", "W1ThermSensor", 0, self.device_id),
                             Ev("init", "set_resolution", 0, self.resolution) >>]
    ELSE [self EXCEPT
             !.state = "absent",
             !.cause = outcome,
             !.err = DS18B20_raise(outcome),
             !.log = @ \o << Ev("init", "enter", 0, 0),
                             Ev("init", "W1ThermSensor", 0, self.device_id),
                             Ev("init", "print_error", 0, 0) >>]

DS18B20_new(resolution, cal_t, outcome) ==
    DS18B20_init([DS18B20_absent EXCEPT
                     !.resolution = resolution, !.cal_t = cal_t,
                     !.log = << Ev("__init__", "enter", 0, 0) >>],
                 outcome)

\* t_read when the library answers temp: round((temp + self.cal_t), 2).
DS18B20_t_read_value(self, temp) ==
    [self EXCEPT
        !.ret = << QRound2(QAdd(QFrac(temp, 16), QFrac(self.cal_t, 100))) >>,
        !.log = @ \o << Ev("t_read", "enter", 0, 0),
                        Ev("t_read", "get_temperature", 0, temp) >>]

\* t_read when the library raises one of the three exceptions caught: the
\* message is printed and Exception() is raised.
DS18B20_t_read_error(self, caught) ==
    LET e == DS18B20_raise(caught)
    IN  [self EXCEPT
            !.cause = caught,
            !.err = e,
            !.kinds = @ \cup { <<caught, e.type>> },
            !.log = @ \o << Ev("t_read", "enter", 0, 0),
                            Ev("t_read", "get_temperature", 0, 0),
                            Ev("t_read", "print_error", 0, 0) >>]

DS18B20_enter(self, name) ==
    [self EXCEPT !.call = name, !.log = << >>, !.ret = << >>,
                 !.err = NoError, !.cause = "none"]

DS18B20_Construct ==
    /\ ds.state = "absent"
    /\ \E resolution \in {9, 10, 11, 12}, cal_t \in CalOffsets,
          outcome \in {"ok"} \cup InitErrors :
          ds' = [DS18B20_new(resolution, cal_t, outcome)
                   EXCEPT !.call = "__init__", !.kinds = ds.kinds]
    /\ UNCHANGED <<clock, ina, bme, sht, mcp, mpl>>

DS18B20_Init ==
    /\ ds.state = "ready"
    /\ \E outcome \in {"ok"} \cup InitErrors :
          ds' = [DS18B20_init(DS18B20_enter(ds, "init"), outcome)
                   EXCEPT !.state = "ready"]
    /\ UNCHANGED <<clock, ina, bme, sht, mcp, mpl>>

DS18B20_TRead ==
    /\ ds.state = "ready"
    /\ \/ \E temp \in DsTemperatures :
             ds' = DS18B20_t_read_value(DS18B20_enter(ds, "t_read"), temp)
       \/ \E caught \in TReadErrors :
             ds' = DS18B20_t_read_error(DS18B20_enter(ds, "t_read"), caught)
    /\ UNCHANGED <<clock, ina, bme, sht, mcp, mpl>>

---------------------------------------------------------------------------
(* MPL3115A2.                                                              *)
(*                                                                         *)
(* The values p_read and t_read return are held in hundredths.  data is    *)
(* the answer to the latest block read.  dev is what the device's CTRL1,   *)
(* CTRL2 and DR_STATUS registers read during a call.                       *)

\* Values of CTRL_REG1, CTRL_REG2, DR_STATUS the device answers.
MplRegisters == { <<0, 0, 0>>, <<185, 0, 14>> }

\* 3-byte answers to the read of the pressure/altitude registers (0x01).
\* (Pressure fractions of exactly one half are left out: whether p / 100
\* then rounds up or down depends on the float nearest to it.)
MplPressureBlocks ==
    {0, 1, 127, 128, 255} \X {0, 16, 255} \X {0, 95, 240}

\* 2-byte answers to the read of the temperature registers (0x04).
MplTemperatureBlocks == {0, 25, 127, 128, 231, 255} \X {0, 80, 240}

MPL3115A2_absent ==
    [state |-> "absent", alt |-> 0,
     call |-> "none", log |-> << >>, data |-> << >>, ret |-> 0]

\* r_ctrl_reg1, r_ctrl_reg2, r_dr_status: one register read and a print.
MPL3115A2_r_ctrl_reg1(self, dev) ==
    [self EXCEPT !.log = @ \o << Ev("r_ctrl_reg1", "enter", 0, 0),
                                 Ev("r_ctrl_reg1", "read_byte_data", 38, dev[1]),
                                 Ev("r_ctrl_reg1", "print", 0, dev[1]) >>]

MPL3115A2_r_ctrl_reg2(self, dev) ==
    [self EXCEPT !.log = @ \o << Ev("r_ctrl_reg2", "enter", 0, 0),
                                 Ev("r_ctrl_reg2", "read_byte_data", 39, dev[2]),
                                 Ev("r_ctrl_reg2", "print", 0, dev[2]) >>]

MPL3115A2_r_dr_status(self, dev) ==
    [self EXCEPT !.log = @ \o << Ev("r_dr_status", "enter", 0, 0),
                                 Ev("r_dr_status", "read_byte_data", 7, dev[3]),
                                 Ev("r_dr_status", "print", 0, dev[3]) >>]

\* reset: the reset bit is written to 0x26; the device may drop off the bus
\* while it resets (busError), which is caught and printed.
MPL3115A2_reset(self, busError, dev) ==
    LET s0 == [self EXCEPT
                 !.log = @ \o << Ev("reset", "enter", 0, 0),
                                 Ev("reset", "write_byte_data", 38, 4) >>
                           \o (IF busError THEN << Ev("reset", "print", 0, 0) >>
                               ELSE << >>)
                           \o << Ev("reset", "sleep", 0, 1000) >>]
    IN  MPL3115A2_r_ctrl_reg2(MPL3115A2_r_ctrl_reg1(s0, dev), dev)

MPL3115A2_w_pt_data_cfg(self, drem, pdefe, tdefe) ==
    LET data == Shl(Low(drem, 1), 2) + Shl(Low(pdefe, 1), 1) + Shl(Low(tdefe, 1), 0)
    IN  [self EXCEPT !.log = @ \o << Ev("w_pt_data_cfg", "enter", 0, 0),
                                     Ev("w_pt_data_cfg", "print", 0, data),
                                     Ev("w_pt_data_cfg", "write_byte_data", 19, data) >>]

MPL3115A2_w_ctrl_reg1(self, alt, os, ost, sbyb) ==
    LET data == Shl(Low(alt, 1), 7) + Shl(Low(os, 3), 3) + Shl(Low(ost, 1), 1)
                   + Shl(Low(sbyb, 1), 0)
    IN  [self EXCEPT !.log = @ \o << Ev("w_ctrl_reg1", "enter", 0, 0),
                                     Ev("w_ctrl_reg1", "print", 0, data),
                                     Ev("w_ctrl_reg1", "write_byte_data", 38, data) >>]

MPL3115A2_init(self, busError, dev) ==
    LET s0 == [self EXCEPT !.log = @ \o << Ev("init", "enter", 0, 0) >>]
        s1 == MPL3115A2_reset(s0, busError, dev)
        s2 == MPL3115A2_w_pt_data_cfg(s1, 1, 0, 0)
        s3 == MPL3115A2_w_ctrl_reg1(s2, self.alt, 1, 0, 1)
    IN  MPL3115A2_r_ctrl_reg2(MPL3115A2_r_ctrl_reg1(s3, dev), dev)

MPL3115A2_new(alt, busError, dev) ==
    [MPL3115A2_init([MPL3115A2_absent EXCEPT
                        !.alt = alt,
                        !.log = << Ev("__init__", "enter", 0, 0) >>],
                    busError, dev)
        EXCEPT !.state = "ready"]

\* The altitude branch of p_read (lines 71-78).
MPL3115A2_altitude(data) ==
    LET aint == Shl(Low(data[1], 7), 8) + Shl(Low(data[2], 8), 0)
        sign == Bit(data[1], 7)
        afrc == Shr(HighNibble(data[3]), 4)
        alt0 == IF sign # 0 THEN QInt(-(2^16)) ELSE QInt(0)
    IN  QAdd(QAdd(alt0, QInt(aint)), QFrac(afrc, 16))

\* The pressure branch of p_read (lines 86-89), in hPa.
MPL3115A2_pressure(data) ==
    LET pint == Shl(Low(data[1], 8), 10) + Shl(Low(data[2], 8), 2)
                   + Shr(Low(data[3], 8) - Low(data[3], 6), 6)
        pfrc == Shr(Low(data[3], 6) - Low(data[3], 4), 4)
    IN  QDivInt(QAdd(QInt(pint), QFrac(pfrc, 4)), 100)

\* p_read: data is the 3-byte block read at 0x01.
MPL3115A2_p_read(self, data) ==
    [self EXCEPT
        !.data = data,
        !.ret = IF self.alt # 0
                THEN QRound2(MPL3115A2_altitude(data))
                ELSE QRound2(MPL3115A2_pressure(data)),
        !.log = @ \o << Ev("p_read", "enter", 0, 0),
                        Ev("p_read", "read_block", 1, 3),
                        Ev("p_read", "print", 0, 0),
                        Ev("p_read", "print", 0, 0) >>]

\* The temperature t_read computes (lines 102-110).
MPL3115A2_temperature(data) ==
    LET tint == Shl(Low(data[1], 7), 0)
        tfrc == Shr(HighNibble(data[2]), 4)
        sign == Bit(data[1], 7)
        t0   == IF sign # 0 THEN QInt(-128) ELSE QInt(0)
    IN  QAdd(QAdd(t0, QInt(tint)), QFrac(tfrc, 16))

\* t_read: the three status reads, then data, the 2-byte block read at 0x04.
MPL3115A2_t_read(self, dev, data) ==
    LET s0 == [self EXCEPT !.log = @ \o << Ev("t_read", "enter", 0, 0) >>]
        s1 == MPL3115A2_r_dr_status(
                  MPL3115A2_r_ctrl_reg2(MPL3115A2_r_ctrl_reg1(s0, dev), dev), dev)
    IN  [s1 EXCEPT
            !.data = data,
            !.ret = QRound2(MPL3115A2_temperature(data)),
            !.log = @ \o << Ev("t_read", "read_block", 4, 2),
                            Ev("t_read", "print", 0, 0) >>]

MPL3115A2_enter(self, name) ==
    [self EXCEPT !.call = name, !.log = << >>, !.data = << >>, !.ret = 0]

MPL3115A2_Construct ==
    /\ mpl.state = "absent"
    /\ \E alt \in {0, 1}, busError \in BOOLEAN, dev \in MplRegisters :
          mpl' = [MPL3115A2_new(alt, busError, dev) EXCEPT !.call = "__init__"]
    /\ UNCHANGED <<clock, ina, bme, sht, mcp, ds>>

MPL3115A2_Init ==
    /\ mpl.state = "ready"
    /\ \E busError \in BOOLEAN, dev \in MplRegisters :
          mpl' = MPL3115A2_init(MPL3115A2_enter(mpl, "init"), busError, dev)
    /\ UNCHANGED <<clock, ina, bme, sht, mcp, ds>>

MPL3115A2_PRead ==
    /\ mpl.state = "ready"
    /\ \E data \in MplPressureBlocks :
          mpl' = MPL3115A2_p_read(MPL3115A2_enter(mpl, "p_read"), data)
    /\ UNCHANGED <<clock, ina, bme, sht, mcp, ds>>

MPL3115A2_TRead ==
    /\ mpl.state = "ready"
    /\ \E dev \in MplRegisters, data \in MplTemperatureBlocks :
          mpl' = MPL3115A2_t_read(MPL3115A2_enter(mpl, "t_read"), dev, data)
    /\ UNCHANGED <<clock, ina, bme, sht, mcp, ds>>

---------------------------------------------------------------------------
(* Specifications.                                                         *)

Init ==
    /\ clock = [now |-> 0, moves |-> 0]
    /\ ina = INA233_absent
    /\ bme = BME280_absent
    /\ sht = SHT31_absent
    /\ mcp = MCP9808_absent
    /\ ds = DS18B20_absent
    /\ mpl = MPL3115A2_absent

\* The INA233 energy integrator under a wall clock.
NextINA233 ==
    \/ ClockTick
    \/ ClockSetBack
    \/ INA233_Construct
    \/ INA233_Init
    \/ INA233_SetDefaults
    \/ INA233_ERead

SpecINA233 == Init /\ [][NextINA233]_vars

\* The BME280 driver.
NextBME280 ==
    \/ BME280_Construct
    \/ BME280_GetTrimData
    \/ BME280_SetConfig
    \/ BME280_SetCtrlMeas
    \/ BME280_SetCtrlHum

SpecBME280 == Init /\ [][NextBME280]_vars

\* The SHT31 driver.
NextSHT31 ==
    \/ SHT31_Construct
    \/ SHT31_Reset
    \/ SHT31_RhtRead
    \/ SHT31_CrcCheck

SpecSHT31 == Init /\ [][NextSHT31]_vars

\* The BME280 driver in use: construction, then any of its public methods.
NextMeasure ==
    \/ BME280_ConstructMeasured
    \/ BME280_GetMeasurements
    \/ BME280_GetRaw
    \/ BME280_GetStatus
    \/ BME280_GetId
    \/ BME280_Reset
    \/ BME280_SetConfig
    \/ BME280_SetCtrlMeas
    \/ BME280_SetCtrlHum

SpecMeasure == Init /\ [][NextMeasure]_vars

\* The MCP9808 driver.
NextMCP9808 ==
    \/ MCP9808_Construct
    \/ MCP9808_Init
    \/ MCP9808_TRead

SpecMCP9808 == Init /\ [][NextMCP9808]_vars

\* The DS18B20 driver.
NextDS18B20 ==
    \/ DS18B20_Construct
    \/ DS18B20_Init
    \/ DS18B20_TRead

SpecDS18B20 == Init /\ [][NextDS18B20]_vars

\* The MPL3115A2 driver.
NextMPL3115A2 ==
    \/ MPL3115A2_Construct
    \/ MPL3115A2_Init
    \/ MPL3115A2_PRead
    \/ MPL3115A2_TRead

SpecMPL3115A2 == Init /\ [][NextMPL3115A2]_vars

\* Initialisation and configuration writes of the two drivers that verify
\* their writes.
ConfigPatterns == { <<0, 127, 128>>, <<255, 165, 0>> }

NextConfig ==
    \/ INA233_Construct
    \/ INA233_Init
    \/ INA233_SetMfrCalibration
    \/ INA233_SetMfrDeviceConfig
    \/ INA233_SetMfrAdcConfig
    \/ BME280_ConstructWith(ConfigPatterns)
    \/ BME280_SetConfig
    \/ BME280_SetCtrlMeas
    \/ BME280_SetCtrlHum

SpecConfig == Init /\ [][NextConfig]_vars

---------------------------------------------------------------------------
(* Properties of the INA233 energy integrator (SpecINA233).                *)

\* The fields of the energy block as the datasheet lays them out.
BlockPowAcc(b) == b[2] + 256 * b[3]

BlockRollover(b) == b[4]

BlockSampleCount(b) == b[5] + 256 * b[6] + 65536 * b[7]

\* The interval's total energy with each rollover worth 65536 accumulator
\* units, in the units of total_e.
IntervalEnergy(current_lsb, b) ==
    current_lsb * 25 * (BlockRollover(b) * 65536 + BlockPowAcc(b))

QZero == QInt(0)

QLess(a, b) == QLeq(a, b) /\ a # b

\* The clock reading of the latest utcnow() in a log.
RECURSIVE LastUtcnow(_)
LastUtcnow(log) ==
    IF log = << >> THEN -1
    ELSE IF log[Len(log)].op = "utcnow" THEN log[Len(log)].val
    ELSE LastUtcnow(SubSeq(log, 1, Len(log) - 1))

\* C1: after every e_read the total energy computed for the interval is
\* current_lsb * 25 * (pow_acc_rollover * 65536 + pow_acc).
C1_TotalEnergy65536 ==
    ina.call = "e_read" =>
        ina.total_e = IntervalEnergy(ina.current_lsb, ina.ein_read)

\* C2: an e_read whose sample count is 0 returns 0.0 and leaves energy_acc
\* and last as they were on entry, whatever the other bytes of the block.
C2_EmptySampleUnchanged ==
    (ina.call = "e_read" /\ BlockSampleCount(ina.ein_read) = 0) =>
        /\ ina.ret = QZero
        /\ ina.energy_acc = ina.pre.energy_acc
        /\ ina.last = ina.pre.last

\* An empty sample arrives with a non-empty accumulator, energy already
\* accumulated and the clock past the last read.
C2_Witness ==
    /\ ina.call = "e_read"
    /\ BlockSampleCount(ina.ein_read) = 0
    /\ BlockPowAcc(ina.ein_read) # 0
    /\ BlockRollover(ina.ein_read) # 0
    /\ QLess(QZero, ina.energy_acc)
    /\ ina.t # ina.last

\* C3: an e_read with a non-zero sample count taken at time t adds
\* (total_energy / sample_count) * (t - last) to the accumulated energy
\* (in its units, which hold the division by 3,600,000), total_energy being
\* the interval's total energy of C1; then last = t and the updated
\* accumulator is returned.
C3_AccumulatesIntervalEnergy ==
    (ina.call = "e_read" /\ BlockSampleCount(ina.ein_read) # 0) =>
        /\ ina.energy_acc =
              QAdd(ina.pre.energy_acc,
                   QFrac(IntervalEnergy(ina.current_lsb, ina.ein_read)
                            * (ina.t - ina.pre.last),
                         BlockSampleCount(ina.ein_read)))
        /\ ina.last = ina.t
        /\ ina.ret = ina.energy_acc

\* C4: while no e_read has seen the clock behind the previous reading, the
\* accumulated energy is >= 0, and an e_read never leaves it below what it
\* was on entry.
C4_EnergyMonotone ==
    ina.mono =>
        /\ QLeq(QZero, ina.energy_acc)
        /\ ina.call = "e_read" => QLeq(ina.pre.energy_acc, ina.energy_acc)

\* An e_read grows an accumulator that already held energy.
C4_Witness ==
    /\ ina.mono
    /\ ina.call = "e_read"
    /\ QLess(QZero, ina.pre.energy_acc)
    /\ QLess(ina.pre.energy_acc, ina.energy_acc)

\* C5: right after construction, init and set_defaults the accumulated
\* energy is 0 and last is the clock reading taken by that reset.
C5_ResetZeroes ==
    ina.call \in {"__init__", "init", "set_defaults"} =>
        /\ ina.energy_acc = QZero
        /\ ina.last = LastUtcnow(ina.log)

\* set_defaults resets an accumulator that held energy, at a later time
\* than the last read.
C5_Witness ==
    /\ ina.call = "set_defaults"
    /\ QLess(QZero, ina.pre.energy_acc)
    /\ ina.pre.last # ina.last
    /\ ina.energy_acc = QZero

---------------------------------------------------------------------------
(* Properties of the BME280 calibration parser (SpecBME280).               *)

\* low_byte | (high_byte << 8) of the bytes at offsets i, i + 1 of block b
\* (offsets count from 0).
Raw16(b, i) == b[i + 1] + 256 * b[i + 2]

\* raw - 2^width when the top bit of the width-bit value raw is set.
TwosComplement(raw, width) ==
    IF raw >= 2^(width - 1) THEN raw - 2^width ELSE raw

\* The 12-bit raw values: dig_H4 is byte 3 over the low nibble of byte 4,
\* dig_H5 is byte 5 over the high nibble of byte 4.
RawH4(e) == 16 * e[4] + (e[5] % 16)

RawH5(e) == 16 * e[6] + (e[5] \div 16)

\* C6: every signed calibration field is its raw value read as twos
\* complement of its width (16, 12 or 8 bits), every unsigned field is its
\* raw value and is not negative.
C6_TrimSignExtension ==
    bme.state = "ready" =>
        LET d == bme.trim26
            e == bme.trim7
        IN  /\ bme.dig_T1 = Raw16(d, 0) /\ bme.dig_T1 >= 0
            /\ bme.dig_T2 = TwosComplement(Raw16(d, 2), 16)
            /\ bme.dig_T3 = TwosComplement(Raw16(d, 4), 16)
            /\ bme.dig_P1 = Raw16(d, 6) /\ bme.dig_P1 >= 0
            /\ bme.dig_P2 = TwosComplement(Raw16(d, 8), 16)
            /\ bme.dig_P3 = TwosComplement(Raw16(d, 10), 16)
            /\ bme.dig_P4 = TwosComplement(Raw16(d, 12), 16)
            /\ bme.dig_P5 = TwosComplement(Raw16(d, 14), 16)
            /\ bme.dig_P6 = TwosComplement(Raw16(d, 16), 16)
            /\ bme.dig_P7 = TwosComplement(Raw16(d, 18), 16)
            /\ bme.dig_P8 = TwosComplement(Raw16(d, 20), 16)
            /\ bme.dig_P9 = TwosComplement(Raw16(d, 22), 16)
            /\ bme.dig_H1 = d[26] /\ bme.dig_H1 >= 0
            /\ bme.dig_H2 = TwosComplement(Raw16(e, 0), 16)
            /\ bme.dig_H3 = e[3] /\ bme.dig_H3 >= 0
            /\ bme.dig_H4 = TwosComplement(RawH4(e), 12)
            /\ bme.dig_H5 = TwosComplement(RawH5(e), 12)
            /\ bme.dig_H6 = TwosComplement(e[7], 8)

\* A parsed block with negative and positive signed fields of each width.
C6_Witness ==
    /\ bme.state = "ready"
    /\ bme.dig_T2 < 0 /\ bme.dig_T3 > 0
    /\ bme.dig_H4 < 0 /\ bme.dig_H5 > 0
    /\ bme.dig_H6 < 0
    /\ RawH5(bme.trim7) >= 1024

---------------------------------------------------------------------------
(* Properties of the SHT31 driver (SpecSHT31).                             *)

\* CRC-8 with polynomial x^8 + x^5 + x^4 + 1, MSB first, on an 8-bit
\* register: the register is shifted left within 8 bits and 0x31 is
\* XOR-ed in when the bit shifted out was 1.
RefCrc8Shift(crc) ==
    LET shifted == (2 * crc) % 256
    IN  IF crc >= 128 THEN BitXor(shifted, 49) ELSE shifted

RECURSIVE RefCrc8Bits(_, _)
RefCrc8Bits(crc, k) ==
    IF k = 0 THEN crc ELSE RefCrc8Bits(RefCrc8Shift(crc), k - 1)

\* The register after the bytes of data, starting from init.
RECURSIVE RefCrc8From(_, _)
RefCrc8From(init, data) ==
    IF data = << >> THEN init
    ELSE RefCrc8From(RefCrc8Bits(BitXor(init, Head(data)), 8), Tail(data))

RefCrc8(data) == RefCrc8From(255, data)

\* C7: crc_check returns the CRC-8 (polynomial 0x131, initial value 0xFF,
\* MSB first, no final XOR) of its argument, a value in 0..255; the
\* checksum of BE EF is 0x92 and that of 00 00 is 0x81.
C7_CrcCheckIsCrc8 ==
    sht.call = "crc_check" =>
        /\ sht.crc_out = RefCrc8(sht.crc_in)
        /\ sht.crc_out \in 0..255
        /\ sht.crc_in = <<190, 239>> => sht.crc_out = 146
        /\ sht.crc_in = <<0, 0>> => sht.crc_out = 129

\* crc_check has been called on the test vector BE EF.
C7_Witness ==
    /\ sht.call = "crc_check"
    /\ sht.crc_in = <<190, 239>>
    /\ sht.crc_out = 146

\* Checksum bytes an answer could have carried instead.
OtherChecksums == {0, 1, 129, 146, 255}

\* C8: the pair rht_read returned is the pair it returns for every answer
\* with the same bytes 0, 1, 3, 4 and any checksum bytes 2 and 5, with
\* checksum checking enabled or not.
C8_ChecksumNeverChangesValue ==
    sht.call = "rht_read" =>
        \A crc \in BOOLEAN, tc \in OtherChecksums, hc \in OtherChecksums :
            LET data == <<sht.data[1], sht.data[2], tc,
                          sht.data[4], sht.data[5], hc>>
                other == SHT31_rht_read([sht EXCEPT !.crc = crc], data)
            IN  /\ other.ret_t = sht.ret_t
                /\ other.ret_h = sht.ret_h

\* A read with checking enabled whose two checksums were both found wrong,
\* and which still returned a non-zero pair.
C8_Witness ==
    /\ sht.call = "rht_read"
    /\ sht.crc
    /\ Len(SelectSeq(sht.log, LAMBDA ev : ev.op = "print_error")) = 2
    /\ sht.ret_t # 0
    /\ sht.ret_h # 0

---------------------------------------------------------------------------
(* Properties of the verified configuration writes (SpecConfig).           *)

VerifiedWriteFns ==
    {"set_ctrl_hum", "set_config", "set_ctrl_meas",
     "set_mfr_calibration", "set_mfr_device_config", "set_mfr_adc_config"}

IsVerifiedWrite(ev) ==
    ev.fn \in VerifiedWriteFns /\ ev.op \in {"write_byte_data", "write_word"}

IsReadBack(ev) ==
    ev.fn \in VerifiedWriteFns /\ ev.op \in {"read_byte_data", "read_word"}

\* In log, every verified write is followed by the settle delay, then the
\* read of the same register, then the comparison of what was written with
\* what was read; no read-back comes without the delay before it.
WriteSleepReadCompare(log) ==
    /\ \A i \in 1..Len(log) :
          IsVerifiedWrite(log[i]) =>
             /\ i + 3 <= Len(log)
             /\ log[i + 1].op = "sleep"
             /\ IsReadBack(log[i + 2]) /\ log[i + 2].reg = log[i].reg
             /\ log[i + 3].op = "compare"
             /\ log[i + 3].reg = log[i].val /\ log[i + 3].val = log[i + 2].val
    /\ \A i \in 1..Len(log) :
          IsReadBack(log[i]) => i > 2 /\ log[i - 1].op = "sleep"
                                      /\ IsVerifiedWrite(log[i - 2])

\* In log, every verified write is followed at once by the read of the same
\* register, with no settle delay; the comparison follows when debug is set
\* and is not made otherwise.
WriteReadCompareIfDebug(log, debug) ==
    /\ \A i \in 1..Len(log) :
          IsVerifiedWrite(log[i]) =>
             /\ i + 1 <= Len(log)
             /\ IsReadBack(log[i + 1]) /\ log[i + 1].reg = log[i].reg
             /\ debug => /\ i + 2 <= Len(log)
                         /\ log[i + 2].op = "compare"
                         /\ log[i + 2].reg = log[i].val
                         /\ log[i + 2].val = log[i + 1].val
    /\ \A i \in 1..Len(log) :
          /\ log[i].op # "sleep"
          /\ IsReadBack(log[i]) => i > 1 /\ IsVerifiedWrite(log[i - 1])
          /\ ~debug => log[i].op # "compare"

\* C9 as stated: the verified writes of both drivers go write, settle
\* delay, read-back, compare.
C9_AllWritesSettle ==
    /\ WriteSleepReadCompare(bme.log)
    /\ WriteSleepReadCompare(ina.log)

\* C9 as amended: the BME280 writes go write, settle delay, read-back,
\* compare; the INA233 writes go write, read-back with no settle delay, and
\* compare only when debug is set.
C9_WritesReadBackInOrder ==
    /\ WriteSleepReadCompare(bme.log)
    /\ WriteReadCompareIfDebug(ina.log, ina.debug)

\* Both drivers have just been constructed, the INA233 with debug set.
C9_Witness ==
    /\ bme.call = "__init__" /\ bme.state = "ready"
    /\ ina.call = "__init__" /\ ina.state = "ready"
    /\ ina.debug
    /\ Len(SelectSeq(bme.log, IsVerifiedWrite)) = 3
    /\ Len(SelectSeq(ina.log, IsVerifiedWrite)) = 3

\* The methods entered during a call, in order.
Entered(log) ==
    LET calls == SelectSeq(log, LAMBDA ev : ev.op = "enter")
    IN  [i \in 1..Len(calls) |-> calls[i].fn]

\* Read-backs in log that differ from what was written.
Mismatches(log) ==
    { i \in 2..Len(log) :
        /\ IsReadBack(log[i])
        /\ \E j \in 1..(i - 1) :
              /\ IsVerifiedWrite(log[j]) /\ log[j].fn = log[i].fn
              /\ log[j].val # log[i].val }

\* C10: whatever the registers read back, BME280 construction runs
\* set_ctrl_hum, set_config, set_ctrl_meas, get_trim_data once each in that
\* order and completes, and INA233 init runs set_mfr_calibration,
\* set_mfr_device_config, set_mfr_adc_config once each in that order.
C10_MismatchNeverAborts ==
    /\ bme.call = "__init__" =>
          /\ bme.state = "ready"
          /\ Entered(bme.log) = <<"__init__", "set_ctrl_hum", "set_config",
                                  "set_ctrl_meas", "get_trim_data">>
    /\ ina.call = "__init__" =>
          /\ ina.state = "ready"
          /\ Entered(ina.log) = <<"__init__", "init", "set_defaults",
                                  "set_mfr_calibration", "set_mfr_device_config",
                                  "set_mfr_adc_config">>
    /\ ina.call = "init" =>
          /\ ina.state = "ready"
          /\ Entered(ina.log) = <<"init", "set_defaults",
                                  "set_mfr_calibration", "set_mfr_device_config",
                                  "set_mfr_adc_config">>

\* Both constructions saw all three of their read-backs differ.
C10_Witness ==
    /\ bme.call = "__init__" /\ bme.state = "ready"
    /\ Cardinality(Mismatches(bme.log)) = 3
    /\ ina.call = "__init__" /\ ina.state = "ready"
    /\ Cardinality(Mismatches(ina.log)) = 3

\* In log, the read-back after a verified write differs from what was
\* written exactly when the method then prints its read-back error.
MismatchReported(log) ==
    \A i \in 1..Len(log) :
       IsReadBack(log[i]) =>
          \A j \in 1..(i - 1) :
             (IsVerifiedWrite(log[j]) /\ log[j].fn = log[i].fn) =>
                ((log[j].val # log[i].val) <=>
                    \E k \in (i + 1)..Len(log) :
                       /\ log[k].op = "print_error"
                       /\ log[k].fn = log[i].fn
                       /\ log[k].reg = log[j].val
                       /\ log[k].val = log[i].val)

\* C11: in both drivers and whatever debug is, a verified write whose
\* read-back differs from the value written reports a mismatch, and one whose
\* read-back is equal reports none.
C11_MismatchAlwaysReported ==
    /\ MismatchReported(bme.log)
    /\ MismatchReported(ina.log)

---------------------------------------------------------------------------
(* Properties of the BME280 measurements (SpecMeasure).                    *)

\* C12: the humidity get_measurements computes is within [0, 100]: it is 0
\* when t_fine - 76800 is exactly zero, and otherwise 100 when the polynomial
\* exceeds 100, 0 when the polynomial is below 0, and the polynomial itself
\* in between; the value returned is within 0.00 .. 100.00.
C12_HumidityClamped ==
    bme.meas.done =>
        LET h0     == QSub(bme.meas.t_fine, QInt(76800))
            h1     == bme.meas.h1
            h_comp == bme.meas.h_comp
        IN  /\ QLeq(QZero, h_comp) /\ QLeq(h_comp, QInt(100))
            /\ h0 = QZero => h_comp = QZero
            /\ h0 # QZero =>
                  /\ QLess(QInt(100), h1) => h_comp = QInt(100)
                  /\ QLess(h1, QZero) => h_comp = QZero
                  /\ (QLeq(QZero, h1) /\ QLeq(h1, QInt(100))) => h_comp = h1
            /\ bme.ret[3] \in 0..10000

\* A measurement whose humidity polynomial exceeded 100 and was clamped.
C12_Witness ==
    /\ bme.meas.done
    /\ bme.meas.t_fine # QInt(76800)
    /\ QLess(QInt(100), bme.meas.h1)
    /\ bme.meas.h_comp = QInt(100)

\* C13: when the normalized scratch variable p1 is exactly 0 (as it is
\* whenever dig_P1 = 0) the pressure is exactly 0.0, nothing is divided by
\* p1, nothing is raised, and temperature and humidity are returned as
\* computed.
C13_PressureZeroGuard ==
    bme.meas.done =>
        /\ bme.dig_P1 = 0 => bme.meas.p1 = QZero
        /\ bme.meas.p1 = QZero =>
              /\ bme.meas.p_comp = QZero
              /\ ~bme.meas.divided
              /\ ~bme.meas.raised
              /\ bme.ret = << QRound2(bme.meas.t_comp), 0,
                              QRound2(bme.meas.h_comp) >>

\* A measurement with p1 = 0 that returned a temperature and a humidity.
C13_Witness ==
    /\ bme.meas.done
    /\ bme.meas.p1 = QZero
    /\ bme.dig_P1 = 0
    /\ bme.ret[1] = 1501 /\ bme.ret[2] = 0 /\ bme.ret[3] = 4964

\* The calibration constants of a BME280 object.
Calibration(b) ==
    << b.dig_T1, b.dig_T2, b.dig_T3,
       b.dig_P1, b.dig_P2, b.dig_P3, b.dig_P4, b.dig_P5, b.dig_P6,
       b.dig_P7, b.dig_P8, b.dig_P9,
       b.dig_H1, b.dig_H2, b.dig_H3, b.dig_H4, b.dig_H5, b.dig_H6 >>

\* The attributes of a BME280 object.
Attributes(b) ==
    << b.mode, b.osrs_t, b.osrs_h, b.osrs_p, b.t_sb, b.filter, b.spi3w_en >>
        \o Calibration(b)

\* C16: once the constructor has returned, no call of get_measurements,
\* get_raw, get_status, get_id, reset, set_config, set_ctrl_meas or
\* set_ctrl_hum changes a calibration constant, and get_measurements changes
\* no attribute of the object.
C16_CalibrationImmutable ==
    [][bme.state = "ready" =>
          /\ Calibration(bme') = Calibration(bme)
          /\ bme'.call = "get_measurements" => Attributes(bme') = Attributes(bme)
      ]_vars

\* A measurement has been taken from a constructed, calibrated device.
C16_Witness ==
    /\ bme.state = "ready"
    /\ bme.call = "get_measurements"
    /\ bme.meas.done
    /\ bme.dig_T1 = 0 /\ bme.dig_T2 = 2400 /\ bme.dig_H2 = 16384

---------------------------------------------------------------------------
(* Properties of MCP9808.t_read (SpecMCP9808).                             *)

\* The LSB of a resolution setting, as the denominator of a fraction of a
\* degree: 0.5, 0.25, 0.125, 0.0625.
LsbDenominator(res) ==
    CASE res = 0 -> 2 [] res = 1 -> 4 [] res = 2 -> 8 [] res = 3 -> 16

\* C14: t_read takes the low 13 bits of the register (the three flag bits
\* of byte 0 ignored) as a 13-bit two's-complement number (4096 -> -4096,
\* 4095 -> 4095) and returns it times the LSB of the resolution, plus cal_t,
\* rounded to 2 decimals.
C14_TReadSigned13 ==
    mcp.call = "t_read" =>
        LET raw    == (mcp.tin[1] % 32) * 256 + mcp.tin[2]
            signed == IF raw >= 4096 THEN raw - 8192 ELSE raw
        IN  /\ mcp.res \in 0..3
            /\ mcp.bt = signed
            /\ mcp.ret = QRound2(QAdd(QFrac(signed, LsbDenominator(mcp.res)),
                                      QFrac(mcp.cal_t, 100)))

\* The boundary value 4096, read with flag bits set, came out as -4096
\* half-degrees.
C14_Witness ==
    /\ mcp.call = "t_read"
    /\ mcp.tin = <<240, 0>>
    /\ mcp.bt = -4096
    /\ mcp.res = 0 /\ mcp.cal_t = 0
    /\ mcp.ret = -204800

---------------------------------------------------------------------------
(* Properties of DS18B20.t_read (SpecDS18B20).                             *)

\* C15: the error t_read propagates tells which of the three conditions
\* occurred (no two conditions propagate the same kind of error), and a
\* failed t_read returns no temperature.
C15_DistinctErrorKinds ==
    /\ \A p \in ds.kinds, q \in ds.kinds : p[2] = q[2] => p[1] = q[1]
    /\ (ds.call = "t_read" /\ ds.err.type # "none") => ds.ret = << >>

---------------------------------------------------------------------------
(* Properties of the MPL3115A2 readings (SpecMPL3115A2).                   *)

\* C17: in altitude mode p_read returns the 16-bit two's-complement value of
\* bytes 0 and 1 plus the high nibble of byte 2 in sixteenths (FF FF 0x gives
\* -1); t_read returns the 8-bit two's-complement value of byte 0 plus the
\* high nibble of byte 1 in sixteenths.
C17_TwosComplementReadings ==
    /\ (mpl.call = "p_read" /\ mpl.alt # 0) =>
          mpl.ret = QRound2(QAdd(QInt(TwosComplement(mpl.data[1] * 256 + mpl.data[2], 16)),
                                 QFrac(mpl.data[3] \div 16, 16)))
    /\ mpl.call = "t_read" =>
          mpl.ret = QRound2(QAdd(QInt(TwosComplement(mpl.data[1], 8)),
                                 QFrac(mpl.data[2] \div 16, 16)))

=============================================================================
